---- MODULE Spec2Model ----
(***************************************************************************)
(* State-machine model of app.js: a two-class webcam image classifier.     *)
(* The event loop is modelled as one action per task: a click handler up   *)
(* to its first await, the continuation after each await, a timer firing,  *)
(* and the resolution or rejection of each awaited promise.  alert() blocks *)
(* the event loop, so no task runs while the alert dialog is open.         *)
(***************************************************************************)
EXTENDS Integers, Sequences, FiniteSets

(* ----------------------------- bounds --------------------------------- *)
\* number of capture clicks (both classes together) a behaviour may contain
MaxCaptures == 11
\* number of capture handlers that may be suspended at their await at once
MaxPending == 2
\* number of interval timers that may be live at once
MaxTimers == 2
\* number of prediction cycles that may be in flight at once
MaxCycles == 1
\* the last epoch count at which a runtime failure of fit is injected
MaxFailEpoch == 1

(* ------------------------ program constants --------------------------- *)
\* app.js:98   (embeddingsA.length + embeddingsB.length) < 10
MinTotal == 10
\* app.js:114  epochs: 25
Epochs == 25
\* app.js:108  tf.oneHot(..., 2)
NumClasses == 2
\* app.js:30, 163  predictInterval = null
Null == 0

Classes == {"A", "B"}

VARIABLES
    initPc,            \* position of init(): which await it is suspended at
    mobilenetModel,    \* TRUE once mobilenet.load() has resolved (line 184)
    classifierModel,   \* [built, epochs]: the referenced classifier and its fitted epochs
    embeddingsA,       \* sequence of class-A samples
    embeddingsB,       \* sequence of class-B samples
    galleryA,          \* number of <img> children of galleryA
    galleryB,          \* number of <img> children of galleryB
    pending,           \* capture handlers suspended at `await embedFromCanvas`
    captureLog,        \* per class, the capture clicks made before and after the extractor loaded
    trainBtn,          \* trainBtn.disabled
    startPredictBtn,   \* startPredictBtn.disabled
    stopPredictBtn,    \* stopPredictBtn.disabled
    status,            \* statusEl.innerText
    alertOpen,         \* the insufficient-data alert (line 99) is open
    xs,                \* the stacked training inputs (line 106), <<>> when disposed
    ys,                \* the one-hot training labels (line 108), <<>> when disposed
    fits,              \* train handlers suspended at `await classifierModel.fit`
    progress,          \* epoch numbers reported by onEpochEnd since the last accepted train
    trainOutcome,      \* how the last accepted train trigger ended
    everTrained,       \* TRUE once some train handler has run to line 126
    predictInterval,   \* the handle stored by the start handler, Null when none
    timers,            \* handles of the interval timers that are live
    cycles,            \* prediction cycles in flight, by the await they are suspended at
    bars               \* what the two percentage bars show

vars == <<initPc, mobilenetModel, classifierModel, embeddingsA, embeddingsB,
          galleryA, galleryB, pending, captureLog, trainBtn, startPredictBtn, stopPredictBtn,
          status, alertOpen, xs, ys, fits, progress, trainOutcome, everTrained,
          predictInterval, timers, cycles, bars>>

initVars    == <<initPc, mobilenetModel>>
storeVars   == <<embeddingsA, embeddingsB>>
galleryVars == <<galleryA, galleryB, captureLog>>
buttonVars  == <<trainBtn, startPredictBtn, stopPredictBtn>>
trainVars   == <<classifierModel, xs, ys, fits, progress, trainOutcome, everTrained>>
timerVars   == <<predictInterval, timers>>
cycleVars   == <<cycles, bars>>

(* ----------------------------- helpers -------------------------------- *)
Msg(t, n) == [text |-> t, n |-> n]

\* statusEl before app.js has written to it: none of the texts app.js writes
Unwritten == Msg("", 0)

Unset == [built |-> FALSE, epochs |-> 0]

\* buildModel(inputSize): a freshly compiled, unfitted classifier
buildModel == [built |-> TRUE, epochs |-> 0]

Store(c) == IF c = "A" THEN embeddingsA ELSE embeddingsB

\* the number of thumbnails addThumbnail has appended to the gallery of class c
Gallery(c) == IF c = "A" THEN galleryA ELSE galleryB

\* embedFromCanvas resolving although no extractor is loaded
embedFromCanvas_NoExtractor(c, k) == [cls |-> c, k |-> k, ok |-> TRUE]

\* embedFromCanvas(canvas): the embedding of the frame of the k-th capture
\* click of class c, identified by (c, k) so that distinct captures give
\* distinct vectors; the async function rejects (ok = FALSE) when
\* mobilenetModel is undefined, because mobilenetModel.infer throws.
embedFromCanvas(c, k) == [cls |-> c, k |-> k, ok |-> mobilenetModel]

Sample(e) == [cls |-> e.cls, k |-> e.k]

\* Push with captureB's handler pushing to embeddingsA (a copy-paste slip)
Push_CopyPaste(store, c, e) == IF e.ok /\ c = "A" THEN Append(store, Sample(e)) ELSE store

\* Push assigning a one-element array instead of appending
Push_Overwrite(store, c, e) == IF e.ok /\ e.cls = c THEN <<Sample(e)>> ELSE store

\* the bucket `store` of class c after the handler of capture e resumes:
\* embeddingsA.push (line 70) in captureA's handler, embeddingsB.push (line 78)
\* in captureB's; a rejected await pushes nothing
Push(store, c, e) == IF e.ok /\ e.cls = c THEN Append(store, Sample(e)) ELSE store

\* tf.oneHot(label, 2)
OneHot(label) == [i \in 1..NumClasses |-> IF i = label + 1 THEN 1 ELSE 0]

\* line 107: Array(nA).fill(0) ++ Array(nB).fill(1)
Labels(nA, nB) == [i \in 1..(nA + nB) |-> IF i <= nA THEN 0 ELSE 1]

\* StackXs with the two buckets spread in the other order
StackXs_BFirst == embeddingsB \o embeddingsA

\* line 106: tf.stack([...embeddingsA, ...embeddingsB])
StackXs == embeddingsA \o embeddingsB

\* line 108: tf.oneHot(tf.tensor1d(labels), 2)
StackYs ==
    LET l == Labels(Len(embeddingsA), Len(embeddingsB))
    IN  [i \in 1..Len(l) |-> OneHot(l[i])]

\* onEpochEnd(epoch, logs): the status text of line 118
OnEpochEnd(epoch) == Msg("Epoch", epoch + 1)

\* setInterval returns a handle that no live timer has
FreshHandle == CHOOSE h \in 1..(MaxTimers + 1) : h \notin timers

RemoveAt(s, i) == [j \in 1..(Len(s) - 1) |-> IF j < i THEN s[j] ELSE s[j + 1]]

CyclesInFlight == cycles.embed + cycles.data

(* ------------------------------- Init --------------------------------- *)
\* The state when app.js starts.  The three controls app.js enables and
\* disables take their first `disabled` state from the page's markup, which
\* app.js neither sets nor reads at start-up: every combination is a start
\* state.  The capture buttons are never written by app.js and are enabled.
Init ==
    /\ initPc = "getUserMedia"
    /\ mobilenetModel = FALSE
    /\ classifierModel = Unset
    /\ embeddingsA = <<>>
    /\ embeddingsB = <<>>
    /\ galleryA = 0
    /\ galleryB = 0
    /\ pending = <<>>
    /\ captureLog = [c \in Classes |-> [early |-> 0, loaded |-> 0]]
    /\ trainBtn \in BOOLEAN
    /\ startPredictBtn \in BOOLEAN
    /\ stopPredictBtn \in BOOLEAN
    /\ status = Unwritten
    /\ alertOpen = FALSE
    /\ xs = <<>>
    /\ ys = <<>>
    /\ fits = <<>>
    /\ progress = <<>>
    /\ trainOutcome = "none"
    /\ everTrained = FALSE
    /\ predictInterval = Null
    /\ timers = {}
    /\ cycles = [embed |-> 0, data |-> 0]
    /\ bars = "empty"

(* --------------------------- init(), lines 189-195 -------------------- *)
\* getUserMedia resolves: srcObject is set and videoEl.play() is awaited
GetUserMediaOk ==
    /\ ~alertOpen
    /\ initPc = "getUserMedia"
    /\ initPc' = "play"
    /\ UNCHANGED <<mobilenetModel, classifierModel, storeVars, galleryVars, pending,
                   buttonVars, status, alertOpen, xs, ys, fits, progress, trainOutcome, everTrained,
                   timerVars, cycleVars>>

\* play() resolves: setupWebcam returns and loadMobileNet runs to its await
PlayOk ==
    /\ ~alertOpen
    /\ initPc = "play"
    /\ initPc' = "load"
    /\ status' = Msg("Loading MobileNet...", 0)
    /\ UNCHANGED <<mobilenetModel, classifierModel, storeVars, galleryVars, pending,
                   buttonVars, alertOpen, xs, ys, fits, progress, trainOutcome, everTrained,
                   timerVars, cycleVars>>

\* mobilenet.load resolves: loadMobileNet stores the model and returns, and
\* init resumes after `await loadMobileNet()` in the same microtask checkpoint
MobileNetLoaded ==
    /\ ~alertOpen
    /\ initPc = "load"
    /\ initPc' = "ready"
    /\ mobilenetModel' = TRUE
    /\ status' = Msg("Ready! Capture images now.", 0)
    /\ UNCHANGED <<classifierModel, storeVars, galleryVars, pending,
                   buttonVars, alertOpen, xs, ys, fits, progress, trainOutcome, everTrained,
                   timerVars, cycleVars>>

\* getUserMedia, play or mobilenet.load rejects: nothing catches it, init's
\* promise rejects and no statement of init runs again
InitFail ==
    /\ ~alertOpen
    /\ initPc \in {"getUserMedia", "play", "load"}
    /\ initPc' = "failed"
    /\ UNCHANGED <<mobilenetModel, classifierModel, storeVars, galleryVars, pending,
                   buttonVars, status, alertOpen, xs, ys, fits, progress, trainOutcome, everTrained,
                   timerVars, cycleVars>>

(* ------------------- capture handlers, lines 67-80 -------------------- *)
\* click on captureA / captureB: frame to canvas, thumbnail appended,
\* embedFromCanvas called, handler suspended at its await
CaptureClick(c) ==
    /\ ~alertOpen
    /\ galleryA + galleryB < MaxCaptures
    /\ Len(pending) < MaxPending
    /\ galleryA' = IF c = "A" THEN galleryA + 1 ELSE galleryA
    /\ galleryB' = IF c = "B" THEN galleryB + 1 ELSE galleryB
    /\ pending' = Append(pending, embedFromCanvas(c, Gallery(c) + 1))
    /\ captureLog' = IF mobilenetModel
                     THEN [captureLog EXCEPT ![c].loaded = @ + 1]
                     ELSE [captureLog EXCEPT ![c].early = @ + 1]
    /\ UNCHANGED <<initVars, classifierModel, storeVars, buttonVars, status, alertOpen,
                   xs, ys, fits, progress, trainOutcome, everTrained,
                   timerVars, cycleVars>>

\* CaptureSettle that also drops the classifier when a sample is added
CaptureSettle_Invalidates ==
    /\ ~alertOpen
    /\ pending # <<>>
    /\ LET e == Head(pending) IN
        /\ embeddingsA' = Push(embeddingsA, "A", e)
        /\ embeddingsB' = Push(embeddingsB, "B", e)
        /\ status' = IF ~e.ok THEN status
                     ELSE IF e.cls = "A"
                          THEN Msg("Class A samples", Len(embeddingsA) + 1)
                          ELSE Msg("Class B samples", Len(embeddingsB) + 1)
        /\ classifierModel' = IF e.ok THEN Unset ELSE classifierModel
    /\ pending' = Tail(pending)
    /\ UNCHANGED <<initVars, galleryVars, buttonVars, alertOpen,
                   xs, ys, fits, progress, trainOutcome, everTrained,
                   timerVars, cycleVars>>

\* the awaited embedding settles: push and status on success, nothing when
\* the promise was rejected
CaptureSettle ==
    /\ ~alertOpen
    /\ pending # <<>>
    /\ LET e == Head(pending) IN
        /\ embeddingsA' = Push(embeddingsA, "A", e)
        /\ embeddingsB' = Push(embeddingsB, "B", e)
        /\ status' = IF ~e.ok THEN status
                     ELSE IF e.cls = "A"
                          THEN Msg("Class A samples", Len(embeddingsA) + 1)
                          ELSE Msg("Class B samples", Len(embeddingsB) + 1)
    /\ pending' = Tail(pending)
    /\ UNCHANGED <<initVars, classifierModel, galleryVars, buttonVars, alertOpen,
                   xs, ys, fits, progress, trainOutcome, everTrained,
                   timerVars, cycleVars>>

(* ---------------------- train handler, lines 97-129 ------------------- *)
\* TrainReject with the classifier built before the sample count is checked
TrainReject_BuildsModel ==
    /\ alertOpen' = TRUE
    /\ classifierModel' = buildModel
    /\ UNCHANGED <<buttonVars, status, xs, ys, fits, progress, trainOutcome, everTrained>>

\* TrainReject with trainBtn disabled before the sample count is checked
TrainReject_DisablesTrain ==
    /\ alertOpen' = TRUE
    /\ trainBtn' = TRUE
    /\ UNCHANGED <<startPredictBtn, stopPredictBtn, status, trainVars>>

\* lines 98-101: the alert, then return
TrainReject ==
    /\ alertOpen' = TRUE
    /\ UNCHANGED <<buttonVars, status, trainVars>>

\* TrainStart without line 103 (trainBtn stays enabled during fit)
TrainStart_NoDisable ==
    /\ xs' = StackXs
    /\ ys' = StackYs
    /\ classifierModel' = buildModel
    /\ status' = Msg("Training...", 0)
    /\ fits' = Append([i \in 1..Len(fits) |-> [fits[i] EXCEPT !.own = FALSE]],
                      [epoch |-> 0, own |-> TRUE])
    /\ progress' = <<>>
    /\ trainOutcome' = "fitting"
    /\ UNCHANGED <<alertOpen, buttonVars, everTrained>>

\* lines 103-113: the handler up to `await classifierModel.fit`
TrainStart ==
    /\ trainBtn' = TRUE
    /\ xs' = StackXs
    /\ ys' = StackYs
    /\ classifierModel' = buildModel
    /\ status' = Msg("Training...", 0)
    /\ fits' = Append([i \in 1..Len(fits) |-> [fits[i] EXCEPT !.own = FALSE]],
                      [epoch |-> 0, own |-> TRUE])
    /\ progress' = <<>>
    /\ trainOutcome' = "fitting"
    /\ UNCHANGED <<alertOpen, startPredictBtn, stopPredictBtn, everTrained>>

\* click on trainBtn: rejected with an alert below MinTotal samples
TrainClick ==
    /\ ~alertOpen
    /\ ~trainBtn
    /\ IF Len(embeddingsA) + Len(embeddingsB) < MinTotal
       THEN TrainReject
       ELSE TrainStart
    /\ UNCHANGED <<initVars, storeVars, galleryVars, pending, timerVars, cycleVars>>

\* fit finishes one epoch and calls onEpochEnd
FitEpoch(i) ==
    /\ ~alertOpen
    /\ i \in 1..Len(fits)
    /\ fits[i].epoch < Epochs
    /\ fits' = [fits EXCEPT ![i].epoch = @ + 1]
    /\ classifierModel' = IF fits[i].own
                          THEN [classifierModel EXCEPT !.epochs = @ + 1]
                          ELSE classifierModel
    /\ status' = OnEpochEnd(fits[i].epoch)
    /\ progress' = Append(progress, OnEpochEnd(fits[i].epoch).n)
    /\ UNCHANGED <<initVars, storeVars, galleryVars, pending, buttonVars, alertOpen,
                   xs, ys, trainOutcome, everTrained, timerVars, cycleVars>>

\* fit resolves after its last epoch: lines 123-128
TrainDone(i) ==
    /\ ~alertOpen
    /\ i \in 1..Len(fits)
    /\ fits[i].epoch = Epochs
    /\ fits' = RemoveAt(fits, i)
    /\ xs' = <<>>
    /\ ys' = <<>>
    /\ status' = Msg("Training Done! Start Prediction.", 0)
    /\ startPredictBtn' = FALSE
    /\ trainBtn' = FALSE
    /\ trainOutcome' = "done"
    /\ everTrained' = TRUE
    /\ UNCHANGED <<initVars, classifierModel, storeVars, galleryVars, pending,
                   stopPredictBtn, alertOpen, progress, timerVars, cycleVars>>

\* fit rejects before its last epoch (a runtime failure of the framework):
\* nothing catches it and lines 123-128 never run
FitFail(i) ==
    /\ ~alertOpen
    /\ i \in 1..Len(fits)
    /\ fits[i].epoch < Epochs
    /\ fits[i].epoch <= MaxFailEpoch
    /\ fits' = RemoveAt(fits, i)
    /\ trainOutcome' = "failed"
    /\ UNCHANGED <<initVars, classifierModel, storeVars, galleryVars, pending, buttonVars,
                   status, alertOpen, xs, ys, progress, everTrained, timerVars, cycleVars>>

\* the user dismisses the alert: alert() returns and the handler returns (line 100)
AlertDismiss ==
    /\ alertOpen
    /\ alertOpen' = FALSE
    /\ UNCHANGED <<initVars, storeVars, galleryVars, pending, buttonVars, status,
                   trainVars, timerVars, cycleVars>>

(* ------------------- live prediction, lines 132-167 ------------------- *)
\* click on startPredictBtn
StartClick ==
    /\ ~alertOpen
    /\ ~startPredictBtn
    /\ Cardinality(timers) < MaxTimers
    /\ startPredictBtn' = TRUE
    /\ stopPredictBtn' = FALSE
    /\ status' = Msg("Predicting Live...", 0)
    /\ predictInterval' = FreshHandle
    /\ timers' = timers \cup {FreshHandle}
    /\ UNCHANGED <<initVars, storeVars, galleryVars, pending, trainBtn, alertOpen,
                   trainVars, cycleVars>>

\* click on stopPredictBtn
StopClick ==
    /\ ~alertOpen
    /\ ~stopPredictBtn
    /\ timers' = IF predictInterval # Null THEN timers \ {predictInterval} ELSE timers
    /\ predictInterval' = Null
    /\ startPredictBtn' = FALSE
    /\ stopPredictBtn' = TRUE
    /\ status' = Msg("Stopped.", 0)
    /\ UNCHANGED <<initVars, storeVars, galleryVars, pending, trainBtn, alertOpen,
                   trainVars, cycleVars>>

\* a live interval timer fires: lines 138-142 up to `await embedFromCanvas`
TimerFire(h) ==
    /\ ~alertOpen
    /\ h \in timers
    /\ CyclesInFlight < MaxCycles
    /\ cycles' = IF mobilenetModel
                 THEN [cycles EXCEPT !.embed = @ + 1]
                 ELSE cycles
    /\ UNCHANGED <<initVars, storeVars, galleryVars, pending, buttonVars, status,
                   alertOpen, trainVars, timerVars, bars>>

\* the cycle resumes with its embedding: lines 143-147, classifierModel.predict
\* and `await prediction.data()`; predict on an undefined model throws
CyclePredict ==
    /\ ~alertOpen
    /\ cycles.embed > 0
    /\ cycles' = IF classifierModel.built
                 THEN [embed |-> cycles.embed - 1, data |-> cycles.data + 1]
                 ELSE [cycles EXCEPT !.embed = @ - 1]
    /\ UNCHANGED <<initVars, storeVars, galleryVars, pending, buttonVars, status,
                   alertOpen, trainVars, timerVars, bars>>

\* the cycle resumes with the probabilities: updateBars, lines 148-156
CycleRender ==
    /\ ~alertOpen
    /\ cycles.data > 0
    /\ cycles' = [cycles EXCEPT !.data = @ - 1]
    /\ bars' = "pair"
    /\ UNCHANGED <<initVars, storeVars, galleryVars, pending, buttonVars, status,
                   alertOpen, trainVars, timerVars>>

(* ------------------------------- Next --------------------------------- *)
Next ==
    \/ GetUserMediaOk
    \/ PlayOk
    \/ MobileNetLoaded
    \/ InitFail
    \/ \E c \in Classes : CaptureClick(c)
    \/ CaptureSettle
    \/ TrainClick
    \/ AlertDismiss
    \/ \E i \in 1..Len(fits) : FitEpoch(i)
    \/ \E i \in 1..Len(fits) : TrainDone(i)
    \/ \E i \in 1..Len(fits) : FitFail(i)
    \/ StartClick
    \/ StopClick
    \/ \E h \in timers : TimerFire(h)
    \/ CyclePredict
    \/ CycleRender

Spec == Init /\ [][Next]_vars

\* The start states in which the markup gates the controls the way the
\* handlers expect: train enabled (line 128 restores that), start and stop
\* disabled (lines 127 and 134 are what enables them).
InitGated ==
    /\ Init
    /\ ~trainBtn
    /\ startPredictBtn
    /\ stopPredictBtn

\* The behaviours of Spec that start from a gated page.  A property that
\* fails here fails whatever the markup is.
SpecGated == InitGated /\ [][Next]_vars


(* ------------------------------ claims -------------------------------- *)
Total == Len(embeddingsA) + Len(embeddingsB)

\* The predictor is Idle: the stop handler has run (or start never has) and
\* start has not been triggered since.
Idle == predictInterval = Null

\* C1: once the stop handler has run, no timer firing starts a prediction
\* cycle until start is triggered again.
C1_NoCycleAfterStop ==
    [][Idle => ~(\E h \in timers : TimerFire(h))]_vars

\* C2: at most one periodic prediction timer is live at any time, and
\* predictInterval refers to it.
C2_AtMostOneTimer ==
    /\ Cardinality(timers) <= 1
    /\ timers \subseteq {predictInterval}

\* C3: start is guarded while no trained classifier exists: a prediction
\* cycle reaches classifier inference (line 146) only in a state where some
\* training has completed.
C3_NoInferenceBeforeTraining ==
    [][CyclePredict => everTrained]_vars

\* C4: every classifier inference of a prediction cycle runs on a classifier
\* whose 25-epoch fit has finished.
C4_InferenceOnlyOnFittedClassifier ==
    [][CyclePredict => classifierModel.built /\ classifierModel.epochs = Epochs]_vars

\* C5 (as claimed): once all captures have settled, each bucket holds as many
\* vectors as there were capture clicks of its class.
C5_CountsEqualCaptures ==
    pending = <<>> =>
        \A c \in Classes :
            Len(Store(c)) = captureLog[c].early + captureLog[c].loaded

\* C5 (amended): once all captures have settled, each bucket holds as many
\* vectors as there were capture clicks of its class made after the embedding
\* extractor had loaded.
C5_CountsEqualLoadedCaptures ==
    pending = <<>> =>
        \A c \in Classes : Len(Store(c)) = captureLog[c].loaded

C5_Witness ==
    /\ pending = <<>>
    /\ captureLog["A"].early > 0
    /\ captureLog["A"].loaded >= 2
    /\ captureLog["B"].loaded >= 2
    /\ embeddingsA[1].k > 1

\* C6: a train trigger with fewer than MinTotal samples ends in the
\* insufficient-data alert, leaves the classifier reference alone, starts no
\* fit and emits no progress notification.
C6_RejectedTrainDoesNoTraining ==
    [][(TrainClick /\ Total < MinTotal) =>
          /\ alertOpen'
          /\ UNCHANGED <<classifierModel, fits, progress, xs, ys, trainOutcome, status>>]_vars

C6_Witness ==
    /\ alertOpen
    /\ Len(embeddingsA) = 3
    /\ Len(embeddingsB) = 2
    /\ classifierModel = Unset
    /\ progress = <<>>

InOrder(p) == \A i \in 1..Len(p) : p[i] = i

\* C7: the progress notifications of an accepted training are the epoch
\* numbers 1, 2, ... in order and never more than 25; training reports done
\* with exactly 25 of them; and until the 25th the classifier being fitted is
\* not available to start, i.e. start is disabled.
C7_TwentyFiveEpochsThenAvailable ==
    /\ InOrder(progress)
    /\ Len(progress) <= Epochs
    /\ (trainOutcome = "done" => Len(progress) = Epochs)
    /\ ((classifierModel.built /\ Len(progress) < Epochs) => startPredictBtn)

\* C8: an initialization failure is reported: the step in which init fails
\* changes the status text.
C8_InitFailureReported ==
    [][InitFail => status' # status]_vars

\* C9: a rejected train trigger leaves both buckets, the galleries, the
\* predictor (timer, handle, cycles in flight) and the enablement of the
\* train, start and stop controls unchanged, and the train control enabled.
C9_RejectedTrainLeavesState ==
    [][(TrainClick /\ Total < MinTotal) =>
          /\ UNCHANGED <<storeVars, galleryVars, pending, timerVars, cycleVars, buttonVars>>
          /\ ~trainBtn']_vars

C9_Witness ==
    /\ alertOpen
    /\ Total = MinTotal - 1
    /\ ~trainBtn

\* C10: at most one fit is in flight, and the train control is disabled
\* while one is.
C10_OneTrainingInFlight ==
    /\ Len(fits) <= 1
    /\ (fits # <<>> => trainBtn)

C10_Witness ==
    /\ Len(fits) = 1
    /\ fits[1].epoch = Epochs
    /\ trainBtn

\* The stop handler leaves the cycles in flight alone, and a cycle awaiting
\* its probabilities can render them while the predictor is Idle.
C11_StopKeepsCyclesInFlight ==
    /\ [][StopClick => cycles' = cycles]_vars
    /\ []((Idle /\ cycles.data > 0 /\ ~alertOpen) => ENABLED CycleRender)

\* C11: stop does not cancel a cycle already started, which still renders its
\* probability pair while the predictor is Idle; and once the predictor is
\* Idle with no cycle in flight, no cycle starts and no pair is rendered for
\* as long as it stays Idle.
C11_InFlightCompletesThenQuiet ==
    /\ C11_StopKeepsCyclesInFlight
    /\ [][(Idle /\ Idle' /\ CyclesInFlight = 0) =>
             (CyclesInFlight' = 0 /\ bars' = bars)]_vars

\* The predictor is Running: start has been triggered and stop has not since.
Running == predictInterval # Null

\* x, y are the rows of bucket a labelled [1,0] followed by the rows of
\* bucket b labelled [0,1], each bucket in its own order
IsSnapshot(x, y, a, b) ==
    /\ Len(x) = Len(a) + Len(b)
    /\ Len(y) = Len(x)
    /\ \A i \in 1..Len(x) :
          IF i <= Len(a)
          THEN x[i] = a[i] /\ y[i] = <<1, 0>>
          ELSE x[i] = b[i - Len(a)] /\ y[i] = <<0, 1>>

\* bucket s holds samples of class c only, in the order of their capture clicks
InsertionOrder(s, c) ==
    /\ \A i \in 1..Len(s) : s[i].cls = c
    /\ \A i, j \in 1..Len(s) : i < j => s[i].k < s[j].k

\* C13: each bucket holds its class's samples in capture order; an accepted
\* train trigger makes xs, ys the class-A rows labelled [1,0] followed by the
\* class-B rows labelled [0,1] of the buckets as they are at the trigger; and
\* while the fit is in flight xs and ys do not change, so samples captured
\* meanwhile are not part of that training.
C13_TrainingSetIsSnapshot ==
    /\ [](\A c \in Classes : InsertionOrder(Store(c), c))
    /\ [][(TrainClick /\ Total >= MinTotal) =>
             IsSnapshot(xs', ys', embeddingsA, embeddingsB)]_vars
    /\ [][(fits # <<>> /\ fits' # <<>>) => (xs' = xs /\ ys' = ys)]_vars

C13_Witness ==
    /\ Len(fits) = 1
    /\ fits[1].epoch > 0
    /\ Len(xs) = MinTotal
    /\ Total = MinTotal + 1
    /\ IsSnapshot(xs, ys, SubSeq(embeddingsA, 1, Len(embeddingsA) - 1), embeddingsB)
    /\ Len(embeddingsA) >= 2
    /\ Len(embeddingsB) >= 2

\* new keeps every element of old in place
Extends(new, old) ==
    /\ Len(new) >= Len(old)
    /\ SubSeq(new, 1, Len(old)) = old

\* C14: no step shortens a bucket or removes or replaces a stored sample.
C14_StoreOnlyGrows ==
    [][/\ Extends(embeddingsA', embeddingsA)
       /\ Extends(embeddingsB', embeddingsB)]_vars

C14_Witness ==
    /\ trainOutcome = "done"
    /\ bars = "pair"
    /\ Idle
    /\ Total = MinTotal + 1
    /\ Len(embeddingsA) >= 1
    /\ Len(embeddingsB) >= 1

\* C15: a capture step (the click, or the handler resuming after its await)
\* taken once a classifier exists leaves the classifier reference, the
\* training state, the timer and its handle, the cycles in flight and the
\* train, start and stop controls unchanged.
C15_CaptureKeepsClassifierAndPredictor ==
    [][(/\ classifierModel.built
        /\ (\E c \in Classes : CaptureClick(c)) \/ CaptureSettle) =>
          UNCHANGED <<trainVars, timerVars, cycleVars, buttonVars>>]_vars

C15_Witness ==
    /\ trainOutcome = "done"
    /\ classifierModel.epochs = Epochs
    /\ Running
    /\ status.text \in {"Class A samples", "Class B samples"}
    /\ status.n = Len(embeddingsA) \/ status.n = Len(embeddingsB)

\* C16: no bucket holds a sample while the extractor is not loaded, and every
\* sample stored or about to be stored comes from a capture click made after
\* the extractor had loaded (its click ordinal is past the early clicks).
C16_NoSampleWithoutExtractor ==
    /\ (~mobilenetModel => (embeddingsA = <<>> /\ embeddingsB = <<>>))
    /\ \A c \in Classes : \A i \in 1..Len(Store(c)) :
          Store(c)[i].k > captureLog[c].early
    /\ \A i \in 1..Len(pending) :
          pending[i].ok <=> pending[i].k > captureLog[pending[i].cls].early

C16_Witness ==
    /\ ~mobilenetModel
    /\ pending = <<>>
    /\ captureLog["A"].early >= 1
    /\ captureLog["B"].early >= 1
    /\ embeddingsA = <<>>
    /\ embeddingsB = <<>>

\* a capture of class c is suspended at its await
InFlight(c) == \E i \in 1..Len(pending) : pending[i].cls = c

\* C17: each gallery holds at least as many thumbnails as its bucket holds
\* samples, and exactly as many whenever no capture of that class is in flight.
C17_ThumbnailsMatchSamples ==
    \A c \in Classes :
        /\ Gallery(c) >= Len(Store(c))
        /\ (~InFlight(c) => Gallery(c) = Len(Store(c)))

\* C18: the train control is disabled exactly while a fit is in flight.
C18_TrainDisabledIffTraining ==
    trainBtn <=> fits # <<>>

====
